---- MODULE Spec2Model ----
(***************************************************************************)
(* Model of implementations/compucell3d/post/aggregate_stats.py:           *)
(* load_results, clean_results, format_ssr, generate_plots and the         *)
(* aggregate_stats pipeline, together with the file system they act on.    *)
(*                                                                         *)
(* A collection (Dict[int, Dict[str, ndarray]]) is a sequence of entries   *)
(* [id, rec] in dict insertion order; rec is a record with the fields      *)
(* time, com_1, com_2 and every array is a sequence.                       *)
(***************************************************************************)
EXTENDS Integers, Sequences, FiniteSets, TLC

\* ---------------------------------------------------------------- bounds
MaxLen == 2        \* longest array of a run
MaxRuns == 2       \* most runs in a collection / sim_N.json files in a directory
MaxNames == 2      \* longest list given to --names

\* ------------------------------------------------------------- constants
None == -1                                \* Python None in an integer slot (min_steps)
Fields == <<"time", "com_1", "com_2">>    \* key order of the dict built by load_results
NoNames == [given |-> FALSE, list |-> <<>>]   \* rendered_names = None

Min(a, b) == IF a < b THEN a ELSE b
Max(a, b) == IF a > b THEN a ELSE b

\* ------------------------------------------------------------ list helpers
RECURSIVE IndexOf(_, _, _)
\* first index >= i of x in list s, 0 when absent (list.index)
IndexOf(s, x, i) ==
    IF i > Len(s) THEN 0
    ELSE IF s[i] = x THEN i ELSE IndexOf(s, x, i + 1)

InList(s, x) == IndexOf(s, x, 1) # 0

\* list.remove(x): drops the first occurrence only
ListRemove(s, x) ==
    LET j == IndexOf(s, x, 1)
    IN  IF j = 0 THEN s
        ELSE SubSeq(s, 1, j - 1) \o SubSeq(s, j + 1, Len(s))

ListKeys(s, i) == SubSeq(s, i, Len(s))

RECURSIVE DictKeys(_, _)
\* key order of a dict filled by assigning d[s[1]], d[s[2]], ... in turn:
\* a key keeps the position of its first insertion
DictKeys(s, i) ==
    IF i > Len(s) THEN <<>>
    ELSE LET rest == DictKeys(s, i + 1)
         IN  IF IndexOf(s, s[i], 1) = i THEN <<s[i]>> \o rest ELSE rest

\* ------------------------------------------------------------- numpy slice
SuffixSlice(vv, n) ==
    IF n = None THEN vv ELSE SubSeq(vv, Len(vv) - Min(n, Len(vv)) + 1, Len(vv))

\* vv[:n] for n = None or n >= 0
Slice(vv, n) ==
    IF n = None THEN vv ELSE SubSeq(vv, 1, Min(n, Len(vv)))

\* ----------------------------------------------------------- clean_results
RECURSIVE max_steps_loop(_, _, _)
max_steps_loop(results_data, i, acc) ==
    IF i > Len(results_data) THEN acc
    ELSE LET num_steps == Len(results_data[i].rec.time)
         IN  max_steps_loop(results_data, i + 1,
                            IF acc = None THEN num_steps ELSE Max(acc, num_steps))

RECURSIVE min_steps_loop(_, _, _)
\* the loop of lines 32-35, from entry i on with min_steps = acc so far
min_steps_loop(results_data, i, acc) ==
    IF i > Len(results_data) THEN acc
    ELSE LET num_steps == Len(results_data[i].rec.time)
         IN  min_steps_loop(results_data, i + 1,
                            IF acc = None THEN num_steps ELSE Min(acc, num_steps))

\* result_k of lines 39-41
truncate_record(v, n) ==
    [kk \in DOMAIN v |-> Slice(v[kk], n)]

clean_results_inplace(results_data) ==
    LET min_steps == min_steps_loop(results_data, 1, None)
        result == [k \in 1..Len(results_data) |->
                      [id |-> results_data[k].id,
                       rec |-> truncate_record(results_data[k].rec, min_steps)]]
    IN  [result |-> result, min_steps |-> min_steps, arg |-> result]

\* clean_results: the returned pair, and arg = the state of the argument
\* object after the call (new dicts are built, the argument is only read)
clean_results(results_data) ==
    LET min_steps == min_steps_loop(results_data, 1, None)
        result == [k \in 1..Len(results_data) |->
                      [id |-> results_data[k].id,
                       rec |-> truncate_record(results_data[k].rec, min_steps)]]
    IN  [result |-> result, min_steps |-> min_steps, arg |-> results_data]

\* -------------------------------------------------------------- format_ssr
\* results[name][:, i] = column[:] is accepted by numpy when the column has
\* min_steps entries, or one entry (broadcast to every row)
Assignable(column, min_steps) == Len(column) = min_steps \/ Len(column) = 1

ColumnValue(column, min_steps, r) ==
    IF Len(column) = min_steps THEN column[r] ELSE column[1]

stack_reversed(cleaned_data, name, min_steps) ==
    [shape |-> <<min_steps, Len(cleaned_data)>>,
     rows |-> [r \in 1..min_steps |->
                 [i \in 1..Len(cleaned_data) |->
                     ColumnValue(cleaned_data[Len(cleaned_data) + 1 - i].rec[name],
                                 min_steps, r)]]]

\* the ndarray of lines 61-64 for one name: shape (min_steps, num_reps),
\* column i filled from the i-th entry of cleaned_data
stack(cleaned_data, name, min_steps) ==
    [shape |-> <<min_steps, Len(cleaned_data)>>,
     rows |-> [r \in 1..min_steps |->
                 [i \in 1..Len(cleaned_data) |->
                     ColumnValue(cleaned_data[i].rec[name], min_steps, r)]]]

NoArray == [shape |-> <<None, None>>, rows |-> <<>>]

\* value of the format_ssr locals before the call (and after a raise)
NoSsr == [err |-> "unset", clean |-> FALSE, num_reps |-> None,
          times |-> <<>>, results |-> [com_1 |-> NoArray, com_2 |-> NoArray]]

\* format_ssr: err = "" and the returned triple, or the exception raised
format_ssr(results_data, clean) ==
    IF Len(results_data) = 0
    THEN [NoSsr EXCEPT !.err = "IndexError", !.clean = clean]
    ELSE
    LET cr == clean_results(results_data)
        cleaned_data == IF ~clean THEN cr.result ELSE results_data
        min_steps == IF ~clean THEN cr.min_steps ELSE Len(results_data[1].rec.time)
        num_reps == Len(results_data)
        results_names == ListRemove(Fields, "time")
        results_times == results_data[1].rec.time
        ok == \A i \in 1..Len(cleaned_data) : \A j \in 1..Len(results_names) :
                 Assignable(cleaned_data[i].rec[results_names[j]], min_steps)
    IN  IF ~ok
        THEN [NoSsr EXCEPT !.err = "ValueError", !.clean = clean]
        ELSE [err |-> "", clean |-> clean, num_reps |-> num_reps,
              times |-> results_times,
              results |-> [name \in {results_names[j] : j \in 1..Len(results_names)} |->
                              stack(cleaned_data, name, min_steps)]]

\* state of the argument object after format_ssr (it is only read; with
\* clean = False the inner clean_results call is the only other access)
format_ssr_arg(results_data, clean) ==
    IF Len(results_data) = 0 \/ clean THEN results_data
    ELSE clean_results(results_data).arg

\* ---------------------------------------------------------- generate_plots
\* exception raised by axs[name].plot(v['time'], v[name]) of line 99, "" if none
PlotCallError(v, name) ==
    IF ~InList(Fields, name) THEN "KeyError"
    ELSE IF Len(v.time) # Len(v[name]) THEN "ValueError"
    ELSE ""

\* first exception of the loops of lines 97-99, in iteration order
PlotError(results_data, results_names) ==
    LET bad == {p \in (1..Len(results_data)) \X (1..Len(results_names)) :
                   PlotCallError(results_data[p[1]].rec, results_names[p[2]]) # ""}
    IN  IF bad = {} THEN ""
        ELSE LET p == CHOOSE p \in bad : \A q \in bad :
                          p[1] < q[1] \/ (p[1] = q[1] /\ p[2] <= q[2])
             IN  PlotCallError(results_data[p[1]].rec, results_names[p[2]])

RECURSIVE PlotLines(_, _, _, _, _)
\* the lines drawn on axs[name] by the loops of lines 97-99, in drawing order
PlotLines(results_data, results_names, name, i, j) ==
    IF i > Len(results_data) THEN <<>>
    ELSE IF j > Len(results_names)
         THEN PlotLines(results_data, results_names, name, i + 1, 1)
         ELSE (IF results_names[j] = name
               THEN <<[x |-> results_data[i].rec.time,
                       y |-> results_data[i].rec[name]]>>
               ELSE <<>>)
              \o PlotLines(results_data, results_names, name, i, j + 1)

\* exported_name of lines 106-108, as <<prefix, name>> for prefix_name.png
FigName(name_prefix, name) ==
    IF name_prefix = "" THEN <<name>> ELSE <<name_prefix, name>>

FigFile(name_prefix, name, lines) ==
    [file |-> FigName(name_prefix, name), kind |-> "png", lines |-> lines, ssr |-> NoSsr]

\* generate_plots: err = the exception raised ("" if none), saved = the
\* savefig calls in order, names = the caller's results_names object afterwards
generate_plots(results_data, output_dir_state, name_prefix, names) ==
    IF output_dir_state # "dir"
    THEN [err |-> "NotADirectoryError", saved |-> <<>>, names |-> names]
    ELSE IF ~names.given /\ Len(results_data) = 0
    THEN [err |-> "IndexError", saved |-> <<>>, names |-> names]
    ELSE
    LET listed == IF names.given THEN names.list ELSE Fields
        results_names == IF InList(listed, "time") THEN ListRemove(listed, "time")
                         ELSE listed
        names_after == IF names.given THEN [names EXCEPT !.list = results_names]
                       ELSE names
        figs == DictKeys(results_names, 1)
        perr == PlotError(results_data, results_names)
    IN  IF perr # ""
        THEN [err |-> perr, saved |-> <<>>, names |-> names_after]
        ELSE [err |-> "",
              saved |-> [k \in 1..Len(figs) |->
                            FigFile(name_prefix, figs[k],
                                    PlotLines(results_data, results_names, figs[k], 1, 1))],
              names |-> names_after]

\* ------------------------------------------------------------------- state
VARIABLES
    entry,             \* the function called: "aggregate_stats" or "call" (a direct call)
    makedirs_called,   \* whether os.makedirs(output_dir) has run
    results_dir,       \* file system: "absent", "file" or "dir"
    output_dir,        \* file system: "absent" or "dir"
    files,             \* the sim_<N>.json entries of results_dir, in os.listdir order
    written,           \* files written so far (ssr.json, figures), in order
    stdout,            \* lines printed so far
    export_ssr,        \* argument of aggregate_stats
    export_figs,       \* argument of aggregate_stats
    arg_render_clean,  \* argument render_clean as passed by the caller
    render_clean,      \* local render_clean (reassigned at line 137)
    rendered_names,    \* the list object passed as rendered_names, or NoNames
    pc,                \* position in aggregate_stats, or in a direct call
    err,               \* exception that ended the call, "" if none
    nread,             \* files read so far by the loop of load_results
    results,           \* the collection loaded / passed in
    has_results_clean, \* whether results_clean is bound
    results_clean,     \* first value returned by clean_results
    min_steps,         \* second value returned by clean_results
    ssr                \* value returned by format_ssr

vars == <<entry, makedirs_called, results_dir, output_dir, files, written, stdout, export_ssr, export_figs,
          arg_render_clean, render_clean, rendered_names, pc, err, nread, results,
          has_results_clean, results_clean, min_steps, ssr>>

fsVars == <<makedirs_called, results_dir, output_dir, files, written>>
argVars == <<entry, export_ssr, export_figs, arg_render_clean>>

\* ------------------------------------------------------------------ inputs
\* a run whose arrays have nt, n1 and n2 entries; every value tells its run,
\* its series and its position
RunRecord(id, nt, n1, n2) ==
    [time  |-> [j \in 1..nt |-> j - 1],
     com_1 |-> [j \in 1..n1 |-> 100 * id + 10 + j],
     com_2 |-> [j \in 1..n2 |-> 100 * id + 20 + j]]

Lengths == 0..MaxLen

\* shapes <<nt, n1, n2>> of a run: the two series are recorded together and
\* share a length, which need not be the length of the time axis
AnyShape == {<<nt, ns, ns>> : nt \in Lengths, ns \in Lengths}
EqualShape == {<<n, n, n>> : n \in Lengths}

\* orders of distinct run ids (dict insertion orders)
IdLists ==
    UNION {{s \in [1..n -> 0..(MaxRuns - 1)] :
               \A i, j \in 1..n : i # j => s[i] # s[j]} : n \in 0..MaxRuns}

\* os.listdir gives no order: the listings taken are ascending and descending
ListingOrders ==
    {s \in IdLists : \/ \A i \in 1..(Len(s) - 1) : s[i] < s[i + 1]
                     \/ \A i \in 1..(Len(s) - 1) : s[i] > s[i + 1]}

\* the collection with run ids ids[k] and shapes sh[k]
Collection(ids, sh) ==
    [k \in 1..Len(ids) |->
        [id |-> ids[k], rec |-> RunRecord(ids[k], sh[k][1], sh[k][2], sh[k][3])]]

\* what a sim_<N>.json file holds: three arrays of equal length (the format
\* the simulations write), text that is not JSON, or JSON without a field
FileKinds ==
    {<<"ok", n>> : n \in Lengths} \cup {<<"bad_json", 0>>, <<"missing_field", 0>>}

Listing(ids, kd) ==
    [k \in 1..Len(ids) |->
        [id |-> ids[k], state |-> kd[k][1],
         rec |-> RunRecord(ids[k], kd[k][2], kd[k][2], kd[k][2])]]

\* names that can be given to --names: the x axis, a series, an unknown name
NamePool == {"time", "com_1", "com_3"}

NameLists == UNION {[1..n -> NamePool] : n \in 0..MaxNames}

RenderedNames == {NoNames} \cup {[given |-> TRUE, list |-> l] : l \in NameLists}

PyStr(b) == IF b THEN "True" ELSE "False"
Line(text, val) == [line |-> text, val |-> val]

\* -------------------------------------------------------------------- Init
InitLocals ==
    /\ makedirs_called = FALSE
    /\ written = <<>>
    /\ stdout = <<>>
    /\ err = ""
    /\ nread = 0
    /\ has_results_clean = FALSE
    /\ results_clean = <<>>
    /\ min_steps = None
    /\ ssr = NoSsr

\* aggregate_stats(results_dir, output_dir, export_ssr, export_figs, render_clean,
\* rendered_names=...) is about to run
InitAggregate ==
    /\ pc = "start"
    /\ entry = "aggregate_stats"
    /\ results_dir \in {"absent", "file", "dir"}
    /\ output_dir \in {"absent", "dir"}
    /\ IF results_dir = "dir"
       THEN \E ids \in ListingOrders : \E kd \in [1..Len(ids) -> FileKinds] :
               files = Listing(ids, kd)
       ELSE files = <<>>
    /\ export_ssr \in BOOLEAN
    /\ export_figs \in BOOLEAN
    /\ arg_render_clean \in BOOLEAN
    /\ render_clean = arg_render_clean
    /\ rendered_names \in RenderedNames
    /\ results = <<>>
    /\ InitLocals

\* clean_results or format_ssr is about to be called on a collection
InitCall ==
    /\ pc = "call"
    /\ entry = "call"
    /\ results_dir = "dir"
    /\ output_dir = "dir"
    /\ files = <<>>
    /\ export_ssr = FALSE
    /\ export_figs = FALSE
    /\ arg_render_clean = FALSE
    /\ render_clean = FALSE
    /\ rendered_names = NoNames
    /\ \E ids \in IdLists : \E sh \in [1..Len(ids) -> AnyShape] :
          results = Collection(ids, sh)
    /\ InitLocals

Init == InitAggregate \/ InitCall

\* --------------------------------------------------------- aggregate_stats
Raise(e) ==
    /\ pc' = "error"
    /\ err' = e

render_clean_kept(figs, clean) == clean

\* lines 134-137: the value of the local render_clean afterwards
render_clean_local(figs, clean) == IF figs THEN clean ELSE FALSE

dir_checks_no_makedirs(rdir, odir) ==
    IF rdir # "dir"
    THEN [err |-> "NotADirectoryError", output_dir |-> odir, made |-> FALSE]
    ELSE [err |-> "", output_dir |-> odir, made |-> FALSE]

dir_checks_swapped(rdir, odir) ==
    IF rdir # "dir"
    THEN [err |-> "NotADirectoryError", output_dir |-> "dir", made |-> odir # "dir"]
    ELSE [err |-> "", output_dir |-> "dir", made |-> odir # "dir"]

\* lines 125-128: the exception raised ("" if none), the output directory
\* afterwards and whether os.makedirs ran
dir_checks(rdir, odir) ==
    IF rdir # "dir"
    THEN [err |-> "NotADirectoryError", output_dir |-> odir, made |-> FALSE]
    ELSE IF odir # "dir"
    THEN [err |-> "", output_dir |-> "dir", made |-> TRUE]
    ELSE [err |-> "", output_dir |-> odir, made |-> FALSE]

\* lines 125-137
CheckDirs ==
    /\ pc = "start"
    /\ LET c == dir_checks(results_dir, output_dir)
       IN  /\ output_dir' = c.output_dir
           /\ makedirs_called' = c.made
           /\ IF c.err # ""
              THEN /\ Raise(c.err)
                   /\ UNCHANGED <<stdout, render_clean>>
              ELSE /\ pc' = "list"
                   /\ err' = ""
                   /\ stdout' = stdout \o
                        <<Line("Results directory", ""), Line("Output directory", ""),
                          Line("Export SSR data", PyStr(export_ssr)),
                          Line("Export figures", PyStr(export_figs))>> \o
                        (IF export_figs
                         THEN <<Line("Render clean", PyStr(render_clean))>> ELSE <<>>)
                   /\ render_clean' = render_clean_local(export_figs, render_clean)
    /\ UNCHANGED <<results_dir, files, written, argVars, rendered_names, nread, results,
                   has_results_clean, results_clean, min_steps, ssr>>

\* lines 139-140 and 16-20: load_results is entered, the directory is listed
ListResults ==
    /\ pc = "list"
    /\ pc' = "loading"
    /\ stdout' = Append(stdout, Line("Loading results...", ""))
    /\ nread' = 0
    /\ results' = <<>>
    /\ UNCHANGED <<fsVars, argVars, render_clean, rendered_names, err,
                   has_results_clean, results_clean, min_steps, ssr>>

load_file_skipping(f, results_data) ==
    IF f.state = "ok"
    THEN [err |-> "", results_data |-> Append(results_data, [id |-> f.id, rec |-> f.rec])]
    ELSE [err |-> "", results_data |-> results_data]

\* lines 22-26: one iteration of the loop of load_results
load_file(f, results_data) ==
    IF f.state = "bad_json" THEN [err |-> "JSONDecodeError", results_data |-> results_data]
    ELSE IF f.state = "missing_field" THEN [err |-> "KeyError", results_data |-> results_data]
    ELSE [err |-> "", results_data |-> Append(results_data, [id |-> f.id, rec |-> f.rec])]

LoadFile ==
    /\ pc = "loading"
    /\ nread < Len(files)
    /\ LET r == load_file(files[nread + 1], results)
       IN  /\ results' = r.results_data
           /\ IF r.err # ""
              THEN Raise(r.err) /\ UNCHANGED nread
              ELSE /\ nread' = nread + 1
                   /\ UNCHANGED <<pc, err>>
    /\ UNCHANGED <<fsVars, stdout, argVars, render_clean, rendered_names,
                   has_results_clean, results_clean, min_steps, ssr>>

\* line 28: load_results returns once every file has been read
LoadReturn ==
    /\ pc = "loading"
    /\ nread = Len(files)
    /\ pc' = "clean"
    /\ UNCHANGED <<fsVars, stdout, argVars, render_clean, rendered_names, err, nread,
                   results, has_results_clean, results_clean, min_steps, ssr>>

\* lines 142-144
CleanStep ==
    /\ pc = "clean"
    /\ pc' = "ssr"
    /\ IF export_ssr \/ render_clean
       THEN LET c == clean_results(results)
            IN  /\ stdout' = Append(stdout, Line("Cleaning data...", ""))
                /\ has_results_clean' = TRUE
                /\ results_clean' = c.result
                /\ min_steps' = c.min_steps
                /\ results' = c.arg
       ELSE UNCHANGED <<stdout, has_results_clean, results_clean, min_steps, results>>
    /\ UNCHANGED <<fsVars, argVars, render_clean, rendered_names, err, nread, ssr>>

SsrFile(s) == [file |-> <<"ssr.json">>, kind |-> "json", lines |-> <<>>, ssr |-> s]

\* lines 146-160
SsrStep ==
    /\ pc = "ssr"
    /\ IF export_ssr
       THEN LET s == format_ssr(results_clean, TRUE)
            IN  /\ ssr' = s
                /\ results_clean' = format_ssr_arg(results_clean, TRUE)
                /\ stdout' = stdout \o <<Line("Exporting ssr data...", ""),
                                         Line("ssr_fp", "")>>
                /\ IF s.err # ""
                   THEN Raise(s.err) /\ UNCHANGED written
                   ELSE /\ written' = Append(written, SsrFile(s))
                        /\ pc' = "plot_raw"
                        /\ UNCHANGED err
       ELSE /\ pc' = "plot_raw"
            /\ UNCHANGED <<ssr, results_clean, stdout, written, err>>
    /\ UNCHANGED <<makedirs_called, results_dir, output_dir, files, argVars, render_clean, rendered_names,
                   nread, results, has_results_clean, min_steps>>

Saving(saved) == [k \in 1..Len(saved) |-> Line("Saving", saved[k].file[Len(saved[k].file)])]

\* lines 162-164
PlotRaw ==
    /\ pc = "plot_raw"
    /\ IF export_figs
       THEN LET g == generate_plots(results, output_dir, "raw", rendered_names)
            IN  /\ rendered_names' = g.names
                /\ stdout' = Append(stdout, Line("Exporting rendered data...", ""))
                                \o Saving(g.saved)
                /\ written' = written \o g.saved
                /\ IF g.err # "" THEN Raise(g.err)
                   ELSE pc' = "plot_clean" /\ UNCHANGED err
       ELSE /\ pc' = "done"
            /\ UNCHANGED <<rendered_names, stdout, written, err>>
    /\ UNCHANGED <<makedirs_called, results_dir, output_dir, files, argVars, render_clean, nread, results,
                   has_results_clean, results_clean, min_steps, ssr>>

\* lines 166-168
PlotClean ==
    /\ pc = "plot_clean"
    /\ IF render_clean
       THEN LET g == generate_plots(results_clean, output_dir, "clean", rendered_names)
            IN  /\ rendered_names' = g.names
                /\ stdout' = Append(stdout, Line("Exporting rendered clean data...", ""))
                                \o Saving(g.saved)
                /\ written' = written \o g.saved
                /\ IF g.err # "" THEN Raise(g.err)
                   ELSE pc' = "done" /\ UNCHANGED err
       ELSE /\ pc' = "done"
            /\ UNCHANGED <<rendered_names, stdout, written, err>>
    /\ UNCHANGED <<makedirs_called, results_dir, output_dir, files, argVars, render_clean, nread, results,
                   has_results_clean, results_clean, min_steps, ssr>>

\* ------------------------------------------------------------ direct calls
\* result, min_steps = clean_results(results)
CallCleanResults ==
    /\ pc = "call"
    /\ LET c == clean_results(results)
       IN  /\ has_results_clean' = TRUE
           /\ results_clean' = c.result
           /\ min_steps' = c.min_steps
           /\ results' = c.arg
    /\ pc' = "ret_clean_results"
    /\ UNCHANGED <<fsVars, stdout, argVars, render_clean, rendered_names, err, nread, ssr>>

\* num_reps, results_times, results = format_ssr(results, clean)
CallFormatSsr ==
    /\ pc = "call"
    /\ \E clean \in BOOLEAN :
          LET s == format_ssr(results, clean)
          IN  /\ ssr' = s
              /\ results' = format_ssr_arg(results, clean)
              /\ IF s.err # "" THEN Raise(s.err)
                 ELSE pc' = "ret_format_ssr" /\ UNCHANGED err
    /\ UNCHANGED <<fsVars, stdout, argVars, render_clean, rendered_names, nread,
                   has_results_clean, results_clean, min_steps>>

Next ==
    \/ CheckDirs
    \/ ListResults
    \/ LoadFile
    \/ LoadReturn
    \/ CleanStep
    \/ SsrStep
    \/ PlotRaw
    \/ PlotClean
    \/ CallCleanResults
    \/ CallFormatSsr

Spec == Init /\ [][Next]_vars

TypeOK ==
    /\ pc \in {"start", "list", "loading", "clean", "ssr", "plot_raw", "plot_clean",
               "done", "error", "call", "ret_clean_results", "ret_format_ssr"}
    /\ (pc = "error") = (err # "")
    /\ nread \in 0..Len(files)

\* ------------------------------------------------------------- properties
SeriesNames == {"com_1", "com_2"}
FieldSet == {"time"} \cup SeriesNames

\* every series of every record is as long as the record's time axis
Consistent(c) ==
    \A k \in 1..Len(c) : \A name \in SeriesNames :
        Len(c[k].rec[name]) = Len(c[k].rec.time)

\* every record has the same time-axis length
Uniform(c) ==
    \A k, l \in 1..Len(c) : Len(c[k].rec.time) = Len(c[l].rec.time)

\* the shortest time axis of a non-empty collection
MinTimeLen(c) ==
    CHOOSE n \in {Len(c[k].rec.time) : k \in 1..Len(c)} :
        \A k \in 1..Len(c) : n <= Len(c[k].rec.time)

CleanReturned ==
    /\ has_results_clean
    /\ pc # "error"
    /\ Len(results) >= 1

\* C1: on a collection with at least one record whose series are as long as
\* its time axis, clean_results returns min_steps = the shortest time-axis
\* length, and every array of every returned record has exactly min_steps
\* entries.
C1_AlignedLength ==
    (CleanReturned /\ Consistent(results)) =>
        /\ min_steps = MinTimeLen(results)
        /\ \A k \in 1..Len(results_clean) : \A name \in FieldSet :
              Len(results_clean[k].rec[name]) = min_steps

C1_Witness ==
    /\ pc = "ret_clean_results"
    /\ Len(results) = 2
    /\ Consistent(results)
    /\ Len(results[1].rec.time) > Len(results[2].rec.time)
    /\ min_steps = Len(results[2].rec.time)
    /\ min_steps >= 1
    /\ Len(results_clean[1].rec.com_1) = min_steps

\* C2: clean_results keeps run ids and field names, and every returned array
\* is the original array's entries at positions 1..min_steps in the original
\* order (the whole array when it is shorter than min_steps).
C2_PrefixPreserving ==
    CleanReturned =>
        /\ Len(results_clean) = Len(results)
        /\ \A k \in 1..Len(results) :
              /\ results_clean[k].id = results[k].id
              /\ DOMAIN results_clean[k].rec = DOMAIN results[k].rec
              /\ \A name \in DOMAIN results[k].rec :
                    LET orig == results[k].rec[name]
                        cut == results_clean[k].rec[name]
                    IN  /\ Len(cut) = Min(min_steps, Len(orig))
                        /\ \A j \in 1..Len(cut) : cut[j] = orig[j]

C2_Witness ==
    /\ pc = "ret_clean_results"
    /\ Len(results) = 2
    /\ min_steps = 1
    /\ Len(results[2].rec.com_2) = 2
    /\ results_clean[2].rec.com_2 = <<results[2].rec.com_2[1]>>
    /\ results[2].rec.com_2[1] # results[2].rec.com_2[2]

\* C3: clean_results raises on an empty collection, and aggregate_stats over a
\* directory without sim_<N>.json files never gets past cleaning, nor
\* finishes having written output.
C3_EmptyCollectionFails ==
    /\ (pc = "ret_clean_results" => Len(results) > 0)
    /\ (entry = "aggregate_stats" /\ results_dir = "dir" /\ Len(files) = 0
          /\ has_results_clean => pc = "error")
    /\ (entry = "aggregate_stats" /\ results_dir = "dir" /\ Len(files) = 0
          /\ pc = "done" => written = <<>>)

\* the collection format_ssr was called on
SsrInput == IF entry = "call" THEN results ELSE results_clean

\* format_ssr was called within its contract: a non-empty collection of
\* consistent records, uniform in length when clean = True was passed
SsrCalled ==
    /\ ssr.err # "unset"
    /\ Len(SsrInput) >= 1
    /\ Consistent(SsrInput)
    /\ ssr.clean => Uniform(SsrInput)

\* C4: format_ssr returns num_reps = number of records and, per series name
\* other than time, an array of shape (min_steps, num_reps) whose column i
\* holds the first min_steps values of that series of the i-th run.
C4_Stacked ==
    SsrCalled =>
        /\ ssr.err = ""
        /\ ssr.num_reps = Len(SsrInput)
        /\ DOMAIN ssr.results = SeriesNames
        /\ \A name \in SeriesNames :
              LET a == ssr.results[name]
                  m == MinTimeLen(SsrInput)
              IN  /\ a.shape = <<m, Len(SsrInput)>>
                  /\ Len(a.rows) = m
                  /\ \A r \in 1..m :
                        /\ Len(a.rows[r]) = Len(SsrInput)
                        /\ \A i \in 1..Len(SsrInput) :
                              a.rows[r][i] = SsrInput[i].rec[name][r]

C4_Witness ==
    /\ pc = "ret_format_ssr"
    /\ ~ssr.clean
    /\ Len(results) = 2
    /\ Consistent(results)
    /\ Len(results[1].rec.time) = 2
    /\ Len(results[2].rec.time) = 1
    /\ results[1].id > results[2].id
    /\ ssr.results.com_1.rows = <<<<results[1].rec.com_1[1], results[2].rec.com_1[1]>>>>

\* C5: the time axis returned by format_ssr has min_steps entries, as many as
\* the rows of every stacked array, and is the aligned time axis.
C5_TimeAxisLength ==
    (SsrCalled /\ ssr.err = "") =>
        /\ Len(ssr.times) = MinTimeLen(SsrInput)
        /\ \A name \in SeriesNames : Len(ssr.times) = ssr.results[name].shape[1]
        /\ \A j \in 1..Len(ssr.times) : ssr.times[j] = SsrInput[1].rec.time[j]

Aggregating == entry = "aggregate_stats"

PastLoading == pc \in {"clean", "ssr", "plot_raw", "plot_clean", "done"}

Figures == {k \in 1..Len(written) : written[k].kind = "png"}
FiguresOf(prefix) == {k \in Figures : written[k].file[1] = prefix}

\* C6: with a results directory that is not a directory, aggregate_stats ends
\* in NotADirectoryError; os.makedirs never runs, the output directory is not
\* there afterwards unless it was before, no input file is read and no file
\* is written.
C6_MissingResultsDir ==
    (Aggregating /\ results_dir # "dir") =>
        /\ pc \in {"start", "error"}
        /\ pc = "error" => err = "NotADirectoryError"
        /\ ~makedirs_called
        /\ nread = 0
        /\ results = <<>>
        /\ written = <<>>

C6_Witness ==
    /\ Aggregating
    /\ results_dir = "absent"
    /\ pc = "error"
    /\ err = "NotADirectoryError"
    /\ output_dir = "absent"
    /\ export_ssr /\ export_figs

\* C7: cleaning, the write of ssr.json and every figure save happen only once
\* load_results has read every input file; a malformed input file ends the
\* run with nothing cleaned and nothing written.
C7_LoadBeforeExport ==
    Aggregating =>
        /\ (has_results_clean \/ written # <<>> \/ PastLoading) =>
              /\ nread = Len(files)
              /\ Len(results) = Len(files)
              /\ \A k \in 1..Len(files) :
                    files[k].state = "ok" /\ results[k].id = files[k].id
        /\ (\E k \in 1..Len(files) : files[k].state # "ok") =>
              /\ written = <<>>
              /\ ~has_results_clean
              /\ pc \in {"start", "list", "loading", "error"}

C7_Witness ==
    /\ Aggregating
    /\ pc = "error"
    /\ err \in {"JSONDecodeError", "KeyError"}
    /\ Len(files) = 2
    /\ nread = 1
    /\ Len(results) = 1
    /\ export_ssr /\ export_figs
    /\ written = <<>>

\* a generate_plots call made by aggregate_stats returns normally in this step
PlotReturns ==
    /\ Aggregating
    /\ \/ pc = "plot_raw" /\ export_figs /\ pc' = "plot_clean"
       \/ pc = "plot_clean" /\ render_clean /\ pc' = "done"

\* the series names requested of a generate_plots call, less one if "time" is
\* among them (the record's fields other than time when none is requested)
RequestedCount(names) ==
    IF ~names.given THEN Cardinality(FieldSet \ {"time"})
    ELSE Len(names.list)
         - (IF \E j \in 1..Len(names.list) : names.list[j] = "time" THEN 1 ELSE 0)

\* the same, counting a name that is requested several times once
DistinctCount(names) ==
    IF ~names.given THEN Cardinality(FieldSet \ {"time"})
    ELSE LET l == names.list
             times == {j \in 1..Len(l) : l[j] = "time"}
             first == {j \in times : \A i \in times : j <= i}
         IN  Cardinality({l[j] : j \in (1..Len(l)) \ first})

OutputDirMade ==
    /\ [](Aggregating /\ results_dir = "dir" =>
            /\ err # "NotADirectoryError"
            /\ pc # "start" => output_dir = "dir")
    /\ [][Aggregating /\ pc = "start" /\ results_dir = "dir" /\ output_dir = "absent"
            => makedirs_called' /\ output_dir' = "dir" /\ pc' # "error"]_vars

\* C8 as stated: the output directory is created when missing and no
\* NotADirectoryError is raised for it; with input files present and the
\* output directory created by the run, every generate_plots call saves as
\* many figures as names were requested, less one if "time" is among them.
C8_FigureCountAsStated ==
    /\ OutputDirMade
    /\ [][PlotReturns /\ Len(files) >= 1 /\ makedirs_called
            => Len(written') - Len(written) = RequestedCount(rendered_names)]_vars

NamesAreFields ==
    rendered_names.given =>
        \A j \in 1..Len(rendered_names.list) : rendered_names.list[j] \in FieldSet

\* C8 amended: the output directory is created when missing and no
\* NotADirectoryError is raised for it; every generate_plots call that returns
\* saves one figure per distinct requested name, the first "time" left out;
\* and with at least one input file, all well formed, and only names of record
\* fields requested, the run raises nothing.
C8_FigureCount ==
    /\ OutputDirMade
    /\ [][PlotReturns => Len(written') - Len(written) = DistinctCount(rendered_names)]_vars
    /\ [](Aggregating /\ results_dir = "dir" /\ Len(files) >= 1 /\ NamesAreFields
            /\ (\A k \in 1..Len(files) : files[k].state = "ok") => pc # "error")

C8_Witness ==
    /\ Aggregating
    /\ pc = "done"
    /\ makedirs_called
    /\ output_dir = "dir"
    /\ export_figs /\ render_clean
    /\ rendered_names = [given |-> TRUE, list |-> <<"com_1", "com_1">>]
    /\ Len(results) = 2
    /\ Cardinality(FiguresOf("raw")) = 1
    /\ Cardinality(FiguresOf("clean")) = 1

\* C9: render_clean has no effect without export_figs: the local flag is
\* false from line 137 on, data is cleaned only for export_ssr or for
\* export_figs with render_clean, no figure is written and nothing is printed
\* about rendering without export_figs, and clean figures are written only
\* with both export_figs and render_clean.
C9_CleanNeedsFigs ==
    Aggregating =>
        /\ stdout # <<>> => render_clean = (export_figs /\ arg_render_clean)
        /\ stdout = <<>> => pc \in {"start", "error"} /\ render_clean = arg_render_clean
        /\ has_results_clean => export_ssr \/ (export_figs /\ arg_render_clean)
        /\ FiguresOf("clean") # {} => export_figs /\ arg_render_clean
        /\ ~export_figs =>
              /\ Figures = {}
              /\ \A k \in 1..Len(stdout) :
                    stdout[k].line \notin {"Render clean", "Exporting rendered data...",
                                           "Exporting rendered clean data...", "Saving"}
              /\ ~export_ssr => \A k \in 1..Len(stdout) :
                                   stdout[k].line # "Cleaning data..."

C9_Witness ==
    /\ Aggregating
    /\ pc = "done"
    /\ ~export_figs /\ arg_render_clean /\ ~export_ssr
    /\ Len(results) = 2
    /\ ~has_results_clean
    /\ written = <<>>

\* the runs as load_results built them from the files
Loaded == [k \in 1..Len(files) |-> [id |-> files[k].id, rec |-> files[k].rec]]

\* figure k draws, for the series it is named after, one line per run of
\* collection c (twice when the name was requested twice), each the run's
\* whole time axis against its whole series
DrawsAll(k, c) ==
    LET name == written[k].file[2]
        lines == written[k].lines
    IN  /\ \A j \in 1..Len(lines) :
              \E r \in 1..Len(c) : lines[j] = [x |-> c[r].rec.time, y |-> c[r].rec[name]]
        /\ \A r \in 1..Len(c) :
              \E j \in 1..Len(lines) : lines[j] = [x |-> c[r].rec.time, y |-> c[r].rec[name]]

\* C10: clean_results and format_ssr leave the collection they are given as
\* it was, so the raw figures show every run at its own length and the clean
\* figures at the common length.
C10_InputUnchanged ==
    /\ [][(pc = "call" \/ (Aggregating /\ PastLoading)) => results' = results]_vars
    /\ [][pc = "ssr" => results_clean' = results_clean]_vars
    /\ [](Aggregating /\ PastLoading => results = Loaded)
    /\ [](\A k \in FiguresOf("raw") : DrawsAll(k, Loaded))
    /\ [](\A k \in FiguresOf("clean") :
             /\ DrawsAll(k, results_clean)
             /\ \A j \in 1..Len(written[k].lines) :
                   Len(written[k].lines[j].x) = min_steps)

C10_Witness ==
    /\ Aggregating
    /\ pc = "done"
    /\ export_ssr /\ export_figs /\ render_clean
    /\ min_steps = 1
    /\ \E k \in FiguresOf("raw") : \E j \in 1..Len(written[k].lines) :
          Len(written[k].lines[j].x) = 2 /\ Len(written[k].lines[j].y) = 2
    /\ \E k \in FiguresOf("clean") : \E j \in 1..Len(written[k].lines) :
          Len(written[k].lines[j].x) = 1

====
